---- MODULE Spec2Model ----
(***************************************************************************)
(* Model of rspl's overeager receiver (src/streams/overeager_receivers.rs). *)
(*                                                                         *)
(* An OvereagerReceiver<X> owns a buffered message and the receiving half  *)
(* of a crossbeam channel.  `channel(cap, message)` builds the channel and *)
(* the stream, `head` reads the buffer, `tail` blocks in `recv().unwrap()` *)
(* and then replaces the buffer: taking the message out of the channel and *)
(* returning the stream that holds it are two steps of the calling thread, *)
(* and the producers run in between.  The sending half is used by producer threads  *)
(* (`tx.send(x)`, `tx.clone()`, dropping `tx`), as in the module's tests.  *)
(*                                                                         *)
(* The crossbeam primitives are modelled by their documented behaviour:    *)
(*   bounded(cap)  holds at most cap messages, send blocks while full;     *)
(*   unbounded()   holds any number of messages, send never blocks;        *)
(*   recv()        blocks while empty and connected, fails when empty and  *)
(*                 every Sender is dropped, otherwise pops the front;      *)
(*   send(x)       fails once the Receiver is dropped, also when it was    *)
(*                 waiting on a full channel; a send that has room writes  *)
(*                 its message into the channel and then returns Ok, and   *)
(*                 the message can be received before the call returns.    *)
(*                                                                         *)
(* The stream owns the only Receiver: it is dropped when the consumer      *)
(* drops the stream, or when `tail` panics and unwinds.  Dropping the      *)
(* Receiver disconnects the channel.  The messages still queued are        *)
(* destroyed unreceived: at that moment or, depending on the channel       *)
(* flavor and crossbeam's version, when the last Sender is gone and the    *)
(* channel is freed.  Both outcomes are behaviours of the model.           *)
(***************************************************************************)
EXTENDS Naturals, Sequences, FiniteSets

(* ------------------------------- bounds -------------------------------- *)

\* capacities passed to channel(): 0 .. MaxCap
MaxCap == 2
\* total number of send calls made by all producers in a run
MaxSends == 3

\* the element type X: the stream stores and hands on its values without
\* ever inspecting them, so two values stand for it, as with the bool of
\* the module's tests
Values == {0, 1}
\* threads that may hold a Sender: the one given the original, one given a clone
Producers == {1, 2}
None == "None"
\* what is left of the stream once tail has panicked and unwound
NoStream == [dropped |-> TRUE]
\* head has not been called since the last tail call
NotRead == <<>>
\* the channel still has a Sender
NotClosed == [tails |-> 0, pc |-> "open", queued |-> 0]

(* A message in the model is the sent value together with a ghost tag      *)
(* naming who supplied it: a producer, or 0 for the constructor's          *)
(* placeholder.  Only `val` exists in the program.                         *)
Msg(v, by) == [val |-> v, by |-> by]

VARIABLES
    chan,      \* the crossbeam channel: flavor, cap, queue, senders, receivers
    stream,    \* the current OvereagerReceiver { message, receiver } or NoStream
    cpc,       \* consumer thread: "ready" | "in_tail" (inside recv()) |
               \*   "storing" (recv() returned Ok, tail has not returned)
               \*   | "panicked" | "dropped"
    taken,     \* <<m>>: the message recv() returned to the tail call that has
               \* not stored it yet, or <<>>
    ppc,       \* producer threads: "none" | "ready" | "sending" (inside send,
               \*   message not yet in the channel) | "enqueued" (inside send,
               \*   message written, call not yet returned) | "dropped"
               \*   | "panicked" (send returned Err and unwrap() panicked)
    pending,   \* the value a producer is sending, or the one its failed send
               \* handed back (None otherwise)
    sent,      \* ghost: messages in the order they entered the channel
    ntails,    \* ghost: number of successful tail calls
    observed,  \* <<v>>: what head of the stream held returned since the last
               \* tail call, or NotRead
    args,      \* ghost: the arguments channel() was called with
    atClose,   \* ghost: snapshot taken when the last Sender was dropped
    called,    \* ghost: per producer, the values it passed to send, in call order
    received,  \* ghost: the messages recv() handed to returning tail calls, in order
    destroyed  \* ghost: the messages destroyed, unreceived, with the Receiver

vars == <<chan, stream, cpc, ppc, pending, sent, ntails, observed, args, atClose,
          called, received, destroyed, taken>>

(* --------------------------- crossbeam channel -------------------------- *)

\* crossbeam::channel::bounded(cap): one Sender, one Receiver, room for cap
bounded(cap) ==
    [flavor |-> "bounded", cap |-> cap, queue |-> <<>>,
     senders |-> 1, receivers |-> 1]

\* crossbeam::channel::unbounded(): one Sender, one Receiver, no limit
unbounded ==
    [flavor |-> "unbounded", cap |-> 0, queue |-> <<>>,
     senders |-> 1, receivers |-> 1]

\* a bounded channel that counts itself full one message early
is_full_one_early(ch) == ch.flavor = "bounded" /\ Len(ch.queue) + 1 >= ch.cap

\* whether send has to wait: a bounded channel holding cap messages
is_full(ch) == ch.flavor = "bounded" /\ Len(ch.queue) >= ch.cap

\* recv() taking the most recently sent message instead of the oldest
recv_lifo(ch) ==
    IF ch.queue # <<>>
    THEN [kind |-> "Ok", msg |-> ch.queue[Len(ch.queue)],
          rest |-> SubSeq(ch.queue, 1, Len(ch.queue) - 1)]
    ELSE IF ch.senders = 0
         THEN [kind |-> "Err", msg |-> None, rest |-> ch.queue]
         ELSE [kind |-> "Block", msg |-> None, rest |-> ch.queue]

\* recv() reporting disconnection before looking at the pending messages
recv_disconnect_first(ch) ==
    IF ch.senders = 0
    THEN [kind |-> "Err", msg |-> None, rest |-> ch.queue]
    ELSE IF ch.queue # <<>>
         THEN [kind |-> "Ok", msg |-> Head(ch.queue), rest |-> Tail(ch.queue)]
         ELSE [kind |-> "Block", msg |-> None, rest |-> ch.queue]

\* try_recv() in place of recv(): an empty channel is an error at once
recv_try(ch) ==
    IF ch.queue # <<>>
    THEN [kind |-> "Ok", msg |-> Head(ch.queue), rest |-> Tail(ch.queue)]
    ELSE [kind |-> "Err", msg |-> None, rest |-> ch.queue]

\* recv() that never notices that every Sender is gone
recv_ignores_disconnect(ch) ==
    IF ch.queue # <<>>
    THEN [kind |-> "Ok", msg |-> Head(ch.queue), rest |-> Tail(ch.queue)]
    ELSE [kind |-> "Block", msg |-> None, rest |-> ch.queue]

\* recv() that hands out the front message and discards the rest
recv_drains(ch) ==
    IF ch.queue # <<>>
    THEN [kind |-> "Ok", msg |-> Head(ch.queue), rest |-> <<>>]
    ELSE IF ch.senders = 0
         THEN [kind |-> "Err", msg |-> None, rest |-> ch.queue]
         ELSE [kind |-> "Block", msg |-> None, rest |-> ch.queue]

\* recv() that copies the front message out and leaves it in the channel
recv_no_pop(ch) ==
    IF ch.queue # <<>>
    THEN [kind |-> "Ok", msg |-> Head(ch.queue), rest |-> ch.queue]
    ELSE IF ch.senders = 0
         THEN [kind |-> "Err", msg |-> None, rest |-> ch.queue]
         ELSE [kind |-> "Block", msg |-> None, rest |-> ch.queue]

\* Receiver::recv(): Ok(front) | Err(RecvError) | still blocked
recv(ch) ==
    IF ch.queue # <<>>
    THEN [kind |-> "Ok", msg |-> Head(ch.queue), rest |-> Tail(ch.queue)]
    ELSE IF ch.senders = 0
         THEN [kind |-> "Err", msg |-> None, rest |-> ch.queue]
         ELSE [kind |-> "Block", msg |-> None, rest |-> ch.queue]

\* send() that never notices that the Receiver is gone
send_ignores_disconnect(ch, m) ==
    IF is_full(ch)
    THEN [kind |-> "Block", queue |-> ch.queue]
    ELSE [kind |-> "Ok", queue |-> Append(ch.queue, m)]

\* Sender::send(m): Ok(()) with m enqueued | Err(SendError(m)) | still blocked
send(ch, m) ==
    IF ch.receivers = 0
    THEN [kind |-> "Err", queue |-> ch.queue]
    ELSE IF is_full(ch)
         THEN [kind |-> "Block", queue |-> ch.queue]
         ELSE [kind |-> "Ok", queue |-> Append(ch.queue, m)]

\* dropping the Receiver: the channel is disconnected on the receiving
\* side.  The messages still queued are destroyed now when the channel
\* discards eagerly, and in any case when no Sender is left, since the
\* channel is then freed; otherwise they stay until the last Sender goes.
drop_receiver(ch, eager) ==
    [ch EXCEPT !.receivers = 0,
               !.queue = IF eager \/ ch.senders = 0 THEN <<>> ELSE @]

\* dropping a Sender: the last one disconnects the channel on the sending
\* side, and frees it with its messages when the Receiver is gone too
drop_sender(ch) ==
    [ch EXCEPT !.senders = @ - 1,
               !.queue = IF ch.senders = 1 /\ ch.receivers = 0 THEN <<>> ELSE @]

(* --------------------------- OvereagerReceiver -------------------------- *)

\* channel() passing cap to bounded() whatever its value
channel_always_bounded(cap, message) ==
    [tx     |-> 1,
     chan   |-> bounded(cap),
     stream |-> [message |-> Msg(message, 0), receiver |-> "rx"]]

\* channel() starting from a default value instead of the given message
channel_default_message(cap, message) ==
    [tx     |-> 1,
     chan   |-> IF cap > 0 THEN bounded(cap) ELSE unbounded,
     stream |-> [message |-> Msg(0, 0), receiver |-> "rx"]]

\* OvereagerReceiver::channel(cap, message) -> (Sender, Self)
channel(cap, message) ==
    [tx     |-> 1,
     chan   |-> IF cap > 0 THEN bounded(cap) ELSE unbounded,
     stream |-> [message |-> Msg(message, 0), receiver |-> "rx"]]

\* head() looking into the channel for a newer message
head_peek(s) ==
    IF chan.queue # <<>> THEN Head(chan.queue).val ELSE s.message.val

\* Stream::head(&self) -> &X
head(s) == s.message.val

\* tail() with unwrap_or(old message): a closed channel repeats the buffer
tail_unwrap_or(s, r) ==
    IF r.kind = "Ok"
    THEN [panicked |-> FALSE, stream |-> [s EXCEPT !.message = r.msg]]
    ELSE [panicked |-> FALSE, stream |-> s]

\* tail() that receives but forgets to store the message
tail_keeps_message(s, r) ==
    IF r.kind = "Ok"
    THEN [panicked |-> FALSE, stream |-> s]
    ELSE [panicked |-> TRUE, stream |-> NoStream]

\* Stream::tail(self) -> Self, given what recv() returned (r.kind # "Block"):
\* self.message = r.unwrap(); self
tail(s, r) ==
    IF r.kind = "Ok"
    THEN [panicked |-> FALSE, stream |-> [s EXCEPT !.message = r.msg]]
    ELSE [panicked |-> TRUE, stream |-> NoStream]

(* -------------------------------- Init ---------------------------------- *)

Init ==
    \E cap \in 0 .. MaxCap, p \in Values :
        LET c == channel(cap, p) IN
        /\ chan = c.chan
        /\ stream = c.stream
        /\ cpc = "ready"
        /\ ppc = [q \in Producers |-> IF q = c.tx THEN "ready" ELSE "none"]
        /\ pending = [q \in Producers |-> None]
        /\ sent = <<>>
        /\ ntails = 0
        /\ observed = NotRead
        /\ args = [cap |-> cap, message |-> p]
        /\ atClose = NotClosed
        /\ called = [q \in Producers |-> <<>>]
        /\ received = <<>>
        /\ destroyed = <<>>
        /\ taken = <<>>

(* --------------------------- consumer thread ---------------------------- *)

\* head() that waits for a pending message before answering
HeadCall_waits ==
    /\ cpc = "ready"
    /\ chan.queue # <<>>
    /\ observed' = <<head(stream)>>
    /\ UNCHANGED <<chan, stream, cpc, ppc, pending, sent, ntails, args,
                   atClose, called, received, destroyed, taken>>

\* the consumer calls stream.head()
HeadCall ==
    /\ cpc = "ready"
    /\ observed' = <<head(stream)>>
    /\ UNCHANGED <<chan, stream, cpc, ppc, pending, sent, ntails, args,
                   atClose, called, received, destroyed, taken>>

\* the consumer calls stream.tail(): the stream is moved into the call,
\* which enters recv()
TailCall ==
    /\ cpc = "ready"
    /\ cpc' = "in_tail"
    /\ observed' = NotRead
    /\ UNCHANGED <<chan, stream, ppc, pending, sent, ntails, args, atClose,
                   called, received, destroyed, taken>>

\* recv() takes the front message out of the channel and returns Ok
TailRecv ==
    /\ cpc = "in_tail"
    /\ LET r == recv(chan) IN
       /\ r.kind = "Ok"
       /\ chan' = [chan EXCEPT !.queue = r.rest]
       /\ taken' = <<r.msg>>
    /\ cpc' = "storing"
    /\ UNCHANGED <<stream, ppc, pending, sent, ntails, observed, args,
                   atClose, called, received, destroyed>>

\* unwrap() yields the message, the assignment drops the old buffer and
\* stores the message, and tail hands back the stream
TailReturn ==
    /\ cpc = "storing"
    /\ LET t == tail(stream, [kind |-> "Ok", msg |-> taken[1]]) IN
       /\ ~t.panicked
       /\ stream' = t.stream
    /\ received' = Append(received, taken[1])
    /\ taken' = <<>>
    /\ cpc' = "ready"
    /\ ntails' = ntails + 1
    /\ UNCHANGED <<chan, ppc, pending, sent, observed, args, atClose, called,
                   destroyed>>

\* recv() returned Err and unwrap() panics: the thread unwinds, dropping
\* the stream and with it the Receiver
TailPanic ==
    /\ cpc = "in_tail"
    /\ LET r == recv(chan) IN
       /\ r.kind = "Err"
       /\ tail(stream, r).panicked
       /\ \E eager \in BOOLEAN :
             chan' = drop_receiver([chan EXCEPT !.queue = r.rest], eager)
       /\ destroyed' = IF chan'.queue = <<>> THEN destroyed \o r.rest
                                            ELSE destroyed
    /\ stream' = NoStream
    /\ cpc' = "panicked"
    /\ UNCHANGED <<ppc, pending, sent, ntails, observed, args, atClose,
                   called, received, taken>>

\* the consumer drops the stream it holds: the buffered message and the
\* Receiver go with it
DropStream ==
    /\ cpc = "ready"
    /\ cpc' = "dropped"
    /\ stream' = NoStream
    /\ \E eager \in BOOLEAN : chan' = drop_receiver(chan, eager)
    /\ destroyed' = IF chan'.queue = <<>> THEN destroyed \o chan.queue
                                         ELSE destroyed
    /\ observed' = NotRead
    /\ UNCHANGED <<ppc, pending, sent, ntails, args, atClose, called,
                   received, taken>>

(* --------------------------- producer threads --------------------------- *)

\* the number of send calls made so far
SendCalls ==
    Cardinality({<<p, i>> \in Producers \X (1 .. MaxSends) : i <= Len(called[p])})

\* the snapshot kept once a step takes the number of Senders to zero
CloseSnapshot ==
    IF chan.senders = 1
    THEN [tails |-> ntails, pc |-> cpc, queued |-> Len(chan.queue)]
    ELSE atClose

\* producer p calls tx.send(v)
SendCall(p, v) ==
    /\ ppc[p] = "ready"
    /\ SendCalls < MaxSends
    /\ ppc' = [ppc EXCEPT ![p] = "sending"]
    /\ pending' = [pending EXCEPT ![p] = v]
    /\ called' = [called EXCEPT ![p] = Append(@, v)]
    /\ UNCHANGED <<chan, stream, cpc, sent, ntails, observed, args, atClose,
                   received, destroyed, taken>>

\* the channel has a Receiver and room: send writes the message into the
\* channel, where a recv() can take it
SendEnqueue(p) ==
    /\ ppc[p] = "sending"
    /\ LET r == send(chan, Msg(pending[p], p)) IN
       /\ r.kind = "Ok"
       /\ chan' = [chan EXCEPT !.queue = r.queue]
    /\ sent' = Append(sent, Msg(pending[p], p))
    /\ ppc' = [ppc EXCEPT ![p] = "enqueued"]
    /\ pending' = [pending EXCEPT ![p] = None]
    /\ UNCHANGED <<stream, cpc, ntails, observed, args, atClose, called,
                   received, destroyed, taken>>

\* send returns Ok(()) to the producer, whatever has happened to the
\* message and the Receiver since it was written
SendReturn(p) ==
    /\ ppc[p] = "enqueued"
    /\ ppc' = [ppc EXCEPT ![p] = "ready"]
    /\ UNCHANGED <<chan, stream, cpc, pending, sent, ntails, observed, args,
                   atClose, called, received, destroyed, taken>>

\* the Receiver is gone: send returns Err(SendError(x)) and enqueue!'s
\* unwrap() panics; the producer unwinds and its Sender is dropped
SendFail(p) ==
    /\ ppc[p] = "sending"
    /\ LET r == send(chan, Msg(pending[p], p)) IN
       /\ r.kind = "Err"
       /\ chan' = drop_sender([chan EXCEPT !.queue = r.queue])
    /\ destroyed' = IF chan'.queue = <<>> THEN destroyed \o chan.queue
                                         ELSE destroyed
    /\ ppc' = [ppc EXCEPT ![p] = "panicked"]
    /\ atClose' = CloseSnapshot
    /\ UNCHANGED <<stream, cpc, pending, sent, ntails, observed, args, called,
                   received, taken>>

\* producer p clones its Sender and hands the clone to thread q
CloneSender(p, q) ==
    /\ ppc[p] = "ready"
    /\ ppc[q] = "none"
    /\ ppc' = [ppc EXCEPT ![q] = "ready"]
    /\ chan' = [chan EXCEPT !.senders = @ + 1]
    /\ UNCHANGED <<stream, cpc, pending, sent, ntails, observed, args,
                   atClose, called, received, destroyed, taken>>

\* producer p drops its Sender
DropSender(p) ==
    /\ ppc[p] = "ready"
    /\ ppc' = [ppc EXCEPT ![p] = "dropped"]
    /\ chan' = drop_sender(chan)
    /\ destroyed' = IF chan'.queue = <<>> THEN destroyed \o chan.queue
                                         ELSE destroyed
    /\ atClose' = CloseSnapshot
    /\ UNCHANGED <<stream, cpc, pending, sent, ntails, observed, args, called,
                   received, taken>>

(* ----------------------------- specification ---------------------------- *)

Next ==
    \/ HeadCall
    \/ TailCall
    \/ TailRecv
    \/ TailReturn
    \/ TailPanic
    \/ DropStream
    \/ \E p \in Producers, v \in Values : SendCall(p, v)
    \/ \E p \in Producers : SendEnqueue(p)
    \/ \E p \in Producers : SendReturn(p)
    \/ \E p \in Producers : SendFail(p)
    \/ \E p \in Producers, q \in Producers : CloneSender(p, q)
    \/ \E p \in Producers : DropSender(p)

Spec == Init /\ [][Next]_vars

\* A thread that can run is eventually scheduled: a recv() that can return
\* does return, and a send that has room writes its message.
FairSpec ==
    /\ Spec
    /\ WF_vars(TailRecv)
    /\ WF_vars(TailReturn)
    /\ WF_vars(TailPanic)
    /\ \A p \in Producers : WF_vars(SendEnqueue(p))

\* The steps of the scenario in which the consumer never drops the stream:
\* it only reads and advances, so the Receiver lives until tail panics and
\* no send can fail.
LiveNext ==
    \/ HeadCall
    \/ TailCall
    \/ TailRecv
    \/ TailReturn
    \/ TailPanic
    \/ \E p \in Producers, v \in Values : SendCall(p, v)
    \/ \E p \in Producers : SendEnqueue(p)
    \/ \E p \in Producers : SendReturn(p)
    \/ \E p \in Producers, q \in Producers : CloneSender(p, q)
    \/ \E p \in Producers : DropSender(p)

\* The scenario of a consumer that keeps calling tail and producers that
\* run to their end: a recv() or send that can return does, a ready
\* consumer does call tail, and a producer that sends nothing more drops
\* its Sender.
LiveSpec ==
    /\ Init /\ [][LiveNext]_vars
    /\ WF_vars(TailRecv)
    /\ WF_vars(TailReturn)
    /\ WF_vars(TailPanic)
    /\ WF_vars(TailCall)
    /\ \A p \in Producers : WF_vars(SendEnqueue(p))
    /\ \A p \in Producers : WF_vars(SendReturn(p))
    /\ \A p \in Producers : WF_vars(DropSender(p))

(* -------------------------------- claims -------------------------------- *)

Exhausted == chan.senders = 0 /\ chan.queue = <<>>
Blocked == cpc = "in_tail" /\ chan.queue = <<>> /\ chan.senders > 0

\* C1: values surface in exactly the order their sends completed: after the
\* i-th successful tail the buffered message is the i-th message sent, and
\* the messages sent after it are exactly the one a tail call in progress
\* has taken, then the ones the channel holds, in order, or the ones that
\* were destroyed with the Receiver (nothing is skipped, duplicated or
\* reordered on the way to a tail call).
C1_OrderPreserved ==
    /\ ntails <= Len(sent)
    /\ received = SubSeq(sent, 1, ntails)
    /\ taken \o chan.queue \o destroyed = SubSeq(sent, ntails + 1, Len(sent))
    /\ (chan.queue = <<>> \/ destroyed = <<>>)
    /\ (ntails > 0 /\ stream # NoStream) => stream.message = sent[ntails]
    /\ (ntails > 0 /\ cpc = "ready" /\ observed # NotRead)
          => observed = <<sent[ntails].val>>

\* a single producer sent MaxSends values, not all equal, and the consumer
\* has advanced through all of them and read the last one
C1_Witness ==
    /\ ppc[2] = "none"
    /\ Len(sent) = MaxSends
    /\ sent[1].val # sent[2].val
    /\ ntails = MaxSends
    /\ cpc = "ready"
    /\ observed = <<sent[MaxSends].val>>

\* C2: a tail call on a channel with no Sender and no pending message can
\* only end in a panic: the panic is enabled, a return is not, and the step
\* that ends the call leaves no stream state.
C2_ExhaustedTailPanics ==
    /\ []((cpc = "in_tail" /\ Exhausted)
            => (ENABLED TailPanic /\ ~ENABLED TailRecv /\ ~ENABLED TailReturn))
    /\ [][(cpc = "in_tail" /\ Exhausted /\ cpc' # "in_tail")
            => (cpc' = "panicked" /\ stream' = NoStream /\ ntails' = ntails)]_vars

\* the consumer called tail on the fresh stream after the only Sender was
\* dropped unused, and the call panicked
C2_Witness ==
    /\ cpc = "panicked"
    /\ stream = NoStream
    /\ Exhausted
    /\ sent = <<>>
    /\ atClose.pc = "ready"

\* C3: tail panics only on a channel that is closed and empty.  A step into
\* the panic starts from an exhausted channel; while messages are pending
\* after the last Sender is gone, a tail call can receive and cannot panic:
\* it takes the front message out of the channel and returns the stream
\* holding it.
C3_PanicOnlyWhenExhausted ==
    /\ [][(cpc # "panicked" /\ cpc' = "panicked")
            => (cpc = "in_tail" /\ Exhausted)]_vars
    /\ []((cpc = "in_tail" /\ chan.senders = 0 /\ chan.queue # <<>>)
            => (ENABLED TailRecv /\ ~ENABLED TailPanic))
    /\ [][(cpc = "in_tail" /\ chan.senders = 0 /\ chan.queue # <<>>
             /\ cpc' # "in_tail")
            => (/\ cpc' = "storing"
                /\ taken' = <<Head(chan.queue)>>
                /\ chan'.queue = Tail(chan.queue))]_vars
    /\ [](cpc = "storing" => (ENABLED TailReturn /\ ~ENABLED TailPanic))
    /\ [][(cpc = "storing" /\ cpc' # "storing")
            => (cpc' = "ready" /\ stream'.message = taken[1])]_vars

\* the last Sender was dropped with at least two messages pending, two
\* tail calls succeeded afterwards, and the one after the last pending
\* message panicked
C3_Witness ==
    /\ atClose.pc # "open"
    /\ atClose.queued >= 2
    /\ ntails = atClose.tails + atClose.queued
    /\ cpc = "panicked"

\* C4 as stated: with cap = k > 0 the channel never holds more than k
\* messages, and a producer that is sending one more after k sends have
\* completed and before any tail call has received a message stays in its
\* send call through every step in which no tail call receives one; with
\* cap = 0 a send never blocks, whatever the queue depth.
C4_CapacityBlocksSender ==
    /\ []((args.cap > 0) => Len(chan.queue) <= args.cap)
    /\ [][\A p \in Producers :
            (/\ args.cap > 0 /\ Len(sent) = args.cap
             /\ ntails = 0 /\ taken = <<>>
             /\ ppc[p] = "sending" /\ ntails' = ntails /\ taken' = taken)
              => (ppc'[p] = "sending" /\ pending'[p] = pending[p])]_vars
    /\ [](\A p \in Producers : (args.cap = 0 /\ ppc[p] = "sending")
            => (ENABLED SendEnqueue(p) \/ ENABLED SendFail(p)))

\* C4, amended: with cap = k > 0 the channel never holds more than k
\* messages.  While the stream holds the Receiver, a send can complete
\* exactly when fewer than k are queued, a producer blocked on a full
\* channel stays blocked through every step, and the only step that makes
\* room for it is a tail call taking a message out of the channel (the
\* send can then complete before that tail call has returned).  Once the stream is dropped a
\* send that has not written its message, blocked or not, can only fail,
\* and it enqueues nothing; the queue then changes only by being destroyed.
\* A send that has written its message returns Ok.  With cap = 0 a send
\* never blocks: it can complete, or fail when the Receiver is gone.
C4_CapacityBlocksSenderWhileReceived ==
    /\ []((args.cap > 0) => Len(chan.queue) <= args.cap)
    /\ [](\A p \in Producers : ppc[p] = "sending" =>
            /\ ENABLED SendEnqueue(p)
                 <=> (/\ chan.receivers > 0
                      /\ (args.cap = 0 \/ Len(chan.queue) < args.cap))
            /\ ENABLED SendFail(p) <=> chan.receivers = 0)
    /\ [][\A p \in Producers :
            (/\ args.cap > 0 /\ Len(chan.queue) = args.cap
             /\ ppc[p] = "sending" /\ chan.receivers > 0)
              => (ppc'[p] = "sending" /\ pending'[p] = pending[p])]_vars
    /\ [][\A p \in Producers :
            (ppc[p] = "sending" /\ ppc'[p] # "sending")
              => \/ /\ ppc'[p] = "enqueued"
                    /\ chan.receivers > 0
                    /\ chan'.queue = Append(chan.queue, Msg(pending[p], p))
                 \/ /\ ppc'[p] = "panicked"
                    /\ chan.receivers = 0
                    /\ chan'.queue \o destroyed' = chan.queue \o destroyed
                    /\ sent' = sent]_vars
    /\ [][\A p \in Producers :
            (ppc[p] = "enqueued" /\ ppc'[p] # "enqueued")
              => (ppc'[p] = "ready" /\ chan' = chan /\ sent' = sent)]_vars
    /\ [](\A p \in Producers : ppc[p] = "enqueued" => ENABLED SendReturn(p))
    /\ [][(args.cap > 0 /\ Len(chan.queue) = args.cap
             /\ chan'.queue # chan.queue)
            => \/ /\ cpc = "in_tail" /\ cpc' = "storing"
                  /\ chan'.queue = Tail(chan.queue)
               \/ /\ chan'.receivers = 0
                  /\ chan'.queue = <<>>
                  /\ destroyed' = chan.queue]_vars
    /\ [](\A p \in Producers : (args.cap = 0 /\ ppc[p] = "sending")
            => (ENABLED SendEnqueue(p) \/ ENABLED SendFail(p)))

\* cap = 1: one message was queued and nothing was consumed; the consumer
\* dropped the stream, and the producer's second send, which had no room,
\* ended with Err instead of waiting for a tail call
C4_Witness ==
    /\ args.cap = 1
    /\ sent = <<Msg(1, 1)>>
    /\ chan.queue \o destroyed = sent
    /\ called[1] = <<1, 0>>
    /\ ppc[1] = "panicked"
    /\ cpc = "dropped"
    /\ ntails = 0

\* cap = MaxCap: the channel is full, nothing has been consumed, and a
\* producer is blocked sending one more while the stream is held
C4_WitnessBlocked ==
    /\ args.cap = MaxCap
    /\ Len(chan.queue) = MaxCap
    /\ ntails = 0
    /\ chan.receivers > 0
    /\ \E p \in Producers : ppc[p] = "sending"

\* cap = 0: more messages are queued than any bounded channel here holds
C4_WitnessUnbounded ==
    /\ args.cap = 0
    /\ Len(chan.queue) > MaxCap
    /\ ntails = 0

\* cap = 1: the second send has completed after a tail call took the
\* first message and before that call has returned
C4_WitnessUnblockedEarly ==
    /\ args.cap = 1
    /\ Len(sent) = 2
    /\ cpc = "storing"
    /\ ntails = 0
    /\ \A p \in Producers : ppc[p] # "enqueued"

\* cap = k > 0: k+1 sends have completed, the last after a tail call
C4_WitnessUnblocked ==
    /\ args.cap > 0
    /\ Len(sent) = args.cap + 1
    /\ ntails = 1

\* C5: before the first tail call, head of the stream channel(cap, p)
\* returned is p, for every cap and p and whatever has been sent meanwhile.
C5_PlaceholderIsFirstHead ==
    (ntails = 0 /\ cpc = "ready") =>
        /\ stream # NoStream
        /\ head(stream) = args.message
        /\ observed \in {NotRead, <<args.message>>}

\* head was called on the fresh stream and returned the placeholder while a
\* different value was already waiting in the channel
C5_Witness ==
    /\ ntails = 0
    /\ cpc = "ready"
    /\ observed = <<args.message>>
    /\ chan.queue # <<>>
    /\ Head(chan.queue).val # args.message

\* C6: after the first successful tail the buffered message is the first
\* message sent, no longer the placeholder; the placeholder is buffered
\* exactly as long as no tail has succeeded.
C6_FirstTailReplacesPlaceholder ==
    stream # NoStream =>
        /\ (ntails = 0) => stream.message = Msg(args.message, 0)
        /\ (ntails = 1) => stream.message = sent[1]
        /\ (ntails > 0) => stream.message.by \in Producers
        /\ (ntails = 1 /\ cpc = "ready" /\ observed # NotRead)
             => observed = <<sent[1].val>>

\* cap = 1, placeholder 0, the producer sent 1: after one tail head is 1
C6_Witness ==
    /\ args = [cap |-> 1, message |-> 0]
    /\ ntails = 1
    /\ sent = <<Msg(1, 1)>>
    /\ cpc = "ready"
    /\ observed = <<1>>

\* the same stream before advancing: head is the placeholder 0
C6_WitnessBefore ==
    /\ args = [cap |-> 1, message |-> 0]
    /\ ntails = 0
    /\ sent = <<Msg(1, 1)>>
    /\ cpc = "ready"
    /\ observed = <<0>>

\* C7: head changes nothing.  A step in which head returns leaves the
\* stream and the channel as they were; two head calls with no tail call
\* between them return the same value, which is the buffered one, whatever
\* the producers send in the meantime.
C7_HeadChangesNothing ==
    /\ [][(observed' # observed /\ observed' # NotRead)
            => UNCHANGED <<chan, stream, cpc, ntails, sent>>]_vars
    /\ [][(observed # NotRead /\ observed' # NotRead) => observed' = observed]_vars
    /\ []((observed # NotRead /\ cpc = "ready") => observed = <<stream.message.val>>)

\* head returned the buffered value, after which a producer sent a
\* different value that is now first in the channel, still unreceived
C7_Witness ==
    /\ cpc = "ready"
    /\ observed = <<stream.message.val>>
    /\ chan.queue # <<>>
    /\ Head(chan.queue).val # stream.message.val
    /\ ntails > 0
    /\ chan.queue = SubSeq(sent, ntails + 1, Len(sent))

\* C8: whenever the consumer holds a stream state, head can be called and
\* returns a value of the element type without waiting: with the channel
\* empty, non-empty, or disconnected.
C8_HeadAlwaysEnabled ==
    cpc = "ready" =>
        /\ stream # NoStream
        /\ ENABLED HeadCall
        /\ head(stream) \in Values

\* head answered on a stream whose channel is empty and has no Sender left
C8_Witness ==
    /\ cpc = "ready"
    /\ Exhausted
    /\ atClose.pc = "in_tail"
    /\ observed = <<stream.message.val>>

\* C9: a tail call on an empty channel with a live Sender stays blocked:
\* neither a return nor a panic is enabled and every step leaves it in the
\* call with the stream untouched.  A tail call ends only by returning a
\* message that its recv() took from the front of the non-empty channel, a
\* message some producer sent, or by panicking on an exhausted channel; it
\* never hands back the previous buffer.
C9_BlockedTailStaysBlocked ==
    /\ [](Blocked => (~ENABLED TailRecv /\ ~ENABLED TailReturn
                        /\ ~ENABLED TailPanic))
    /\ [][Blocked => (cpc' = "in_tail" /\ stream' = stream /\ taken' = <<>>)]_vars
    /\ [][(cpc = "in_tail" /\ cpc' \notin {"in_tail", "panicked"})
            => (/\ cpc' = "storing"
                /\ chan.queue # <<>>
                /\ taken' = <<Head(chan.queue)>>
                /\ Head(chan.queue).by \in Producers)]_vars
    /\ [][(cpc = "in_tail" /\ cpc' = "panicked") => Exhausted]_vars
    /\ [][cpc' = "ready"
            => \/ cpc = "ready"
               \/ /\ cpc = "storing"
                  /\ stream'.message = taken[1]
                  /\ ntails' = ntails + 1]_vars

\* a tail call has taken the only message and has not returned: the
\* channel is empty with a live Sender, and the call is not blocked
C9_WitnessTaken ==
    /\ cpc = "storing"
    /\ chan.queue = <<>>
    /\ chan.senders > 0
    /\ taken = <<sent[1]>>
    /\ ~Blocked

\* the consumer is inside tail, the channel is empty, a Sender is alive
\* and has nothing in flight
C9_Witness ==
    /\ Blocked
    /\ ntails > 0
    /\ \A p \in Producers : ppc[p] # "sending"

\* C10: once a tail call is waiting on an empty channel whose Senders are
\* all dropped, it eventually panics (and never returns a state).
C10_ClosingCancelsTail ==
    /\ (cpc = "in_tail" /\ Exhausted) ~> (cpc = "panicked")
    /\ [][(cpc = "in_tail" /\ Exhausted) => cpc' \in {"in_tail", "panicked"}]_vars

\* the last Sender was dropped while the consumer was blocked in tail on
\* an empty channel, and the call has panicked
C10_Witness ==
    /\ atClose.pc = "in_tail"
    /\ atClose.queued = 0
    /\ cpc = "panicked"
    /\ stream = NoStream

\* C11: a successful tail removes exactly the front message of the channel
\* and buffers it in the stream it returns, which keeps its receiver.  Its
\* recv() takes the front message and leaves the rest of the queue, the
\* Senders and the producers untouched; until the call returns it takes
\* nothing more, and its return stores that one message and touches
\* nothing in the channel.  A tail that panics removes nothing from the
\* channel.
C11_TailConsumesExactlyOne ==
    /\ [][(cpc = "in_tail" /\ cpc' = "storing")
            => (/\ chan.queue # <<>>
                /\ taken' = <<Head(chan.queue)>>
                /\ chan'.queue = Tail(chan.queue)
                /\ chan'.senders = chan.senders
                /\ chan'.flavor = chan.flavor /\ chan'.cap = chan.cap
                /\ UNCHANGED <<stream, ppc, pending, sent, called, received>>)]_vars
    /\ [][(cpc = "storing" /\ cpc' # "storing")
            => (/\ cpc' = "ready"
                /\ stream'.message = taken[1]
                /\ stream'.receiver = stream.receiver
                /\ chan' = chan
                /\ received' = Append(received, taken[1])
                /\ ntails' = ntails + 1
                /\ UNCHANGED <<ppc, pending, sent, called>>)]_vars
    /\ [][(cpc = "storing" /\ cpc' = "storing")
            => (taken' = taken /\ stream' = stream /\ ntails' = ntails)]_vars
    /\ [](Len(taken) = IF cpc = "storing" THEN 1 ELSE 0)
    /\ [][(cpc = "in_tail" /\ cpc' = "panicked")
            => (/\ chan'.queue = chan.queue
                /\ chan'.senders = chan.senders
                /\ UNCHANGED <<ppc, pending, sent, called, received, ntails>>)]_vars

\* a tail call has just returned the first of three queued messages: the
\* other two are still queued, in order, and the Sender is alive
C11_Witness ==
    /\ cpc = "ready"
    /\ ntails = 1
    /\ Len(sent) = 3
    /\ stream.message = sent[1]
    /\ chan.queue = <<sent[2], sent[3]>>
    /\ chan.senders = 1

\* a tail call panicked after two successful ones
C11_WitnessFailed ==
    /\ cpc = "panicked"
    /\ ntails = 2
    /\ chan.queue = <<>>

\* C12: whenever a stream state exists (the consumer holds it or it is
\* inside a tail call), its buffer holds one value of the element type: the
\* placeholder while no tail has succeeded, afterwards the message the most
\* recent successful tail received.  The stream is absent only after a panic.
C12_BufferNeverEmpty ==
    /\ (cpc \in {"ready", "in_tail", "storing"}) <=> (stream # NoStream)
    /\ stream # NoStream =>
        /\ DOMAIN stream = {"message", "receiver"}
        /\ stream.message.val \in Values
        /\ Len(received) = ntails
        /\ stream.message = IF received = <<>>
                            THEN Msg(args.message, 0)
                            ELSE received[Len(received)]

\* two tails have succeeded, with different values, and the buffer holds
\* the second while the consumer waits inside a third call
C12_Witness ==
    /\ cpc = "in_tail"
    /\ Len(received) = 2
    /\ received[1].val # received[2].val
    /\ stream.message = received[2]
    /\ stream.message.val # args.message

\* the values of the messages of q that producer p sent, in the order of q
ValsBy(q, p) ==
    LET FromP(m) == m.by = p
        ms == SelectSeq(q, FromP)
    IN  [i \in 1 .. Len(ms) |-> ms[i].val]

\* the value producer p has passed to a send call that has not returned
\* Ok: the call is still waiting, or it handed the value back in its Err
InFlight(p) == IF ppc[p] \in {"sending", "panicked"} THEN <<pending[p]>> ELSE <<>>

\* C13: with several producers sending through clones of the Sender, the
\* values each producer passed to send, in its call order, are exactly the
\* ones of its messages that tail calls returned (in that order), followed
\* by the one a tail call in progress has taken, the ones still queued or
\* the ones destroyed with the dropped stream, followed
\* by the one in flight: per producer nothing is skipped, duplicated or
\* reordered on the way to a tail call.  What surfaces through head is the
\* last message received.
C13_PerProducerOrder ==
    /\ \A p \in Producers :
          called[p] = ValsBy(received, p)
                        \o ValsBy(taken \o chan.queue \o destroyed, p)
                        \o InFlight(p)
    /\ (chan.queue = <<>> \/ destroyed = <<>>)
    /\ \A i \in 1 .. Len(received) : received[i].by \in Producers
    /\ (stream # NoStream /\ received # <<>>)
          => stream.message = received[Len(received)]
    /\ (cpc = "ready" /\ received # <<>> /\ observed # NotRead)
          => observed = <<received[Len(received)].val>>

\* three messages surfaced: the clone's first, then the original Sender's
\* between two different values of the clone
C13_Witness ==
    /\ Len(received) = 3
    /\ received[1].by = 2 /\ received[2].by = 1 /\ received[3].by = 2
    /\ received[1].val # received[3].val
    /\ called[2] = <<received[1].val, received[3].val>>
    /\ cpc = "ready"
    /\ observed = <<received[3].val>>

\* the other interleaving: the original Sender's message surfaced first
C13_WitnessOtherOrder ==
    /\ Len(received) = 3
    /\ received[1].by = 1 /\ received[2].by = 2 /\ received[3].by = 1

\* C14: exhaustion is permanent.  Once no Sender is left and nothing is
\* pending, every step leaves the channel closed and empty and no tail
\* call receives a message any more: only a call that had taken its
\* message before can still return, and every call made from then on ends
\* in the panic; after the panic the stream is gone for good, and
\* neither head nor tail can be called on it.
C14_ExhaustionIsPermanent ==
    /\ [][Exhausted => (/\ Exhausted'
                         /\ sent' = sent
                         /\ received' \o taken' = received \o taken
                         /\ (cpc # "storing" =>
                               (ntails' = ntails /\ received' = received)))]_vars
    /\ [][(Exhausted /\ cpc = "in_tail") => cpc' \in {"in_tail", "panicked"}]_vars
    /\ []((Exhausted /\ cpc = "in_tail") => ENABLED TailPanic)
    /\ [][cpc = "panicked" => (cpc' = "panicked" /\ stream' = NoStream)]_vars
    /\ [](cpc = "panicked"
            => (/\ stream = NoStream
                /\ Exhausted
                /\ chan.receivers = 0
                /\ ~ENABLED HeadCall
                /\ ~ENABLED TailCall
                /\ ~ENABLED TailRecv
                /\ ~ENABLED TailReturn))

\* a stream that had advanced twice was passed to tail on the exhausted
\* channel and is gone
C14_Witness ==
    /\ cpc = "panicked"
    /\ stream = NoStream
    /\ Exhausted
    /\ atClose.pc = "ready"
    /\ ntails = 2

\* every producer has returned from its last send and dropped its Sender
ProducersDone ==
    \A p \in Producers : ppc[p] \in {"none", "dropped"} /\ InFlight(p) = <<>>

\* C15: producers that send finitely many values and then drop their
\* Sender, next to a consumer that keeps calling tail, all finish under
\* fair scheduling, for every capacity: every send completes, the consumer
\* receives every value sent (per producer in its call order) in as many
\* successful tails, and the tail after the last one panics.
C15_BothThreadsFinish ==
    <>[](/\ ProducersDone
         /\ cpc = "panicked"
         /\ ntails = Len(sent)
         /\ received = sent
         /\ chan.queue = <<>>
         /\ \A p \in Producers : ValsBy(received, p) = called[p])

\* one producer, cap = 1 < n = MaxSends: all n values were sent and
\* received in call order, and the next tail panicked
C15_Witness ==
    /\ args.cap = 1
    /\ ppc[1] = "dropped" /\ ppc[2] = "none"
    /\ Len(called[1]) = MaxSends
    /\ ValsBy(received, 1) = called[1]
    /\ ntails = MaxSends
    /\ cpc = "panicked"

\* the same with an unbounded channel
C15_WitnessUnbounded ==
    /\ args.cap = 0
    /\ ppc[1] = "dropped" /\ ppc[2] = "none"
    /\ ValsBy(received, 1) = called[1]
    /\ ntails = MaxSends
    /\ cpc = "panicked"

\* whether producer p is inside a send call, or panicked in one
InSend(p) == ppc[p] \in {"sending", "enqueued", "panicked"}

\* the number of send calls that have returned Ok
SendsCompleted ==
    Cardinality({<<p, i>> \in Producers \X (1 .. MaxSends) :
                    i <= Len(called[p]) - (IF InSend(p) THEN 1 ELSE 0)})

\* the number of send calls that have written their message into the
\* channel and have not returned yet
SendsReturning == Cardinality({p \in Producers : ppc[p] = "enqueued"})

\* C16 as stated: conservation.  In every state the number of completed
\* sends equals the number of messages queued plus the number of
\* successful tails.  All three counts are zero after construction,
\* whatever the placeholder, and a step in which head returns changes none
\* of them.
C16_Conservation ==
    /\ (SendsCompleted = 0 /\ chan.queue = <<>> /\ ntails = 0 /\ received = <<>>)
    /\ [](/\ SendsCompleted = Len(chan.queue) + ntails
           /\ ntails = Len(received))
    /\ [][(observed' # observed /\ observed' # NotRead)
            => (/\ SendsCompleted' = SendsCompleted
                /\ Len(chan'.queue) = Len(chan.queue)
                /\ ntails' = ntails)]_vars

\* C16, amended: in every state in which the stream has not been dropped,
\* the number of completed sends plus the number of sends that have
\* written their value and not returned yet equals the number of messages
\* queued, plus the number of successful tails, plus the message a tail
\* call has taken and not returned yet; in particular the stated equation
\* holds whenever no send and no tail call is between taking effect on the
\* channel and returning.  All counts are zero after construction,
\* whatever the placeholder, and a step in which head returns changes none
\* of them.
C16_ConservationWhileHeld ==
    /\ (/\ SendsCompleted = 0 /\ SendsReturning = 0 /\ chan.queue = <<>>
        /\ ntails = 0 /\ received = <<>> /\ taken = <<>>)
    /\ [](/\ ((cpc # "dropped")
                => (SendsCompleted + SendsReturning
                      = Len(chan.queue) + ntails + Len(taken)))
           /\ ((cpc # "dropped" /\ SendsReturning = 0 /\ taken = <<>>)
                => (SendsCompleted = Len(chan.queue) + ntails))
           /\ SendsCompleted + SendsReturning = Len(sent)
           /\ ntails = Len(received))
    /\ [][(observed' # observed /\ observed' # NotRead)
            => (/\ SendsCompleted' = SendsCompleted
                /\ SendsReturning' = SendsReturning
                /\ Len(chan'.queue) = Len(chan.queue)
                /\ taken' = taken
                /\ ntails' = ntails)]_vars

\* cap = 1, the stream is held: the first message was taken by a tail call
\* that has not returned, and the send of the second, which that made room
\* for, has returned: 2 completed sends, 1 message queued, 0 successful
\* tails
C16_Witness ==
    /\ args.cap = 1
    /\ cpc = "storing"
    /\ SendsCompleted = 2
    /\ SendsReturning = 0
    /\ Len(chan.queue) = 1
    /\ ntails = 0
    /\ taken = <<sent[1]>>

\* the stream is held and head was called after a tail that received a
\* message whose send has not returned yet: 1 completed send, 1 send
\* returning, 1 message queued, 1 successful tail
C16_WitnessReturning ==
    /\ cpc = "ready"
    /\ observed # NotRead
    /\ ntails = 1
    /\ Len(chan.queue) = 1
    /\ SendsCompleted = 1
    /\ ppc[2] = "enqueued"
    /\ received = <<Msg(called[2][1], 2)>>

\* all three counts are non-zero while the stream is held and no send is
\* in progress: MaxSends sends completed, 2 messages queued, 1 successful
\* tail
C16_WitnessHeld ==
    /\ SendsCompleted = MaxSends
    /\ SendsReturning = 0
    /\ Len(chan.queue) = 2
    /\ ntails = 1
    /\ observed # NotRead
    /\ cpc = "ready"

\* the stated equation fails once the stream is dropped, with every send
\* returned: two sends completed on a bounded channel, then the stream and
\* the Sender were dropped with both messages queued; the channel is freed
\* and the messages are gone with no tail having succeeded
C16_WitnessDropped ==
    /\ args.cap = 2
    /\ cpc = "dropped"
    /\ SendsCompleted = 2
    /\ SendsReturning = 0
    /\ chan.senders = 0
    /\ chan.queue = <<>>
    /\ Len(destroyed) = 2
    /\ ntails = 0

====
